---- MODULE Spec2Model ----
(***************************************************************************)
(* Keystroke-dynamics demo (keystyleid): feature extraction, transcript    *)
(* validation, training / prediction against the file store, and the       *)
(* Tk capture handlers.                                                    *)
(*                                                                         *)
(* Numbers: timestamps are integers (milliseconds).  A mean or a median is *)
(* the exact fraction <<num, den>> in lowest terms; a standard deviation   *)
(* is kept as [sqrt_of |-> variance] with the variance an exact fraction.  *)
(***************************************************************************)
EXTENDS Integers, Sequences, FiniteSets, TLC

\* ------------------------------------------------------------------ bounds
MaxEvents == 3
MaxTime == 2

Keys == {"a", "b"}
Types == {"down", "up"}
Times == 0..MaxTime
Event == [key : Keys, type : Types, t : Times]
EventSeqs == UNION {[1..n -> Event] : n \in 0..MaxEvents}

Ev(k, ty, ts) == [key |-> k, type |-> ty, t |-> ts]

\* The worked examples of the feature extractor: one key held 100 ms; two
\* distinct keys pressed at 0 and 50, each later released.
ExampleEvents ==
    { <<Ev("a", "down", 0), Ev("a", "up", 100)>>,
      <<Ev("a", "down", 0), Ev("b", "down", 50), Ev("a", "up", 80), Ev("b", "up", 120)>> }

VARIABLES
    events,          \* extract_features: the argument
    pc,              \* extract_features: position in the function
    all_events,      \* extract_features: the (t, type, key) list, sorted
    idx,             \* extract_features: index of the pairing loop
    pending_downs,   \* extract_features: key -> list of pending down timestamps
    dwell_times,     \* extract_features: dwell samples so far
    flight_times,    \* extract_features: flight samples
    features,        \* extract_features: the returned dict
    typed_text,      \* validate_typed_text: first argument
    prompt,          \* validate_typed_text: second argument
    valid,           \* validate_typed_text: the returned bool
    vpc,             \* validate_typed_text: "call" before it returns, "done" after
    cwd,             \* the process working directory (os.getcwd())
    fs,              \* per directory: data/sessions.json, the sub-directories, the artifacts
    runs,            \* number of train_model calls that reached the fit
    trained_ok,      \* history: some train_model call has returned success
    last_ok,         \* history: per model path, the last run that returned success (0: none)
    outcome,         \* the last operation, its arguments and what it returned or showed
    text_input,          \* Collect tab: content of the text box
    dropped,             \* Collect tab, history: events recorded since the box was last empty were discarded
    current_events,      \* Collect tab: self.current_events
    session_start_time,  \* Collect tab: "None" or "started"
    user_var,            \* Collect tab: the selected user label
    predict_text_input,  \* Predict tab: content of the text box
    predict_dropped,     \* Predict tab, history: events recorded since the box was last empty were discarded
    predict_events,      \* Predict tab: self.predict_events
    predict_start_time,  \* Predict tab: "None" or "started"
    focus,               \* the text box with the keyboard focus: "none", "collect", "predict"
    held                 \* the keyboard: a key is down

featVars == <<events, pc, all_events, idx, pending_downs, dwell_times, flight_times, features>>
valVars == <<typed_text, prompt, valid, vpc>>
fsVars == <<cwd, fs, runs, trained_ok, last_ok, outcome>>
guiVars == <<text_input, dropped, current_events, session_start_time, user_var,
             predict_text_input, predict_dropped, predict_events, predict_start_time,
             focus, held>>
vars == <<featVars, valVars, fsVars, guiVars>>

\* ------------------------------------------------------------- arithmetic
RECURSIVE Gcd(_, _)
Gcd(a, b) == IF b = 0 THEN a ELSE Gcd(b, a % b)

Frac(n, d) == LET g == Gcd(n, d) IN <<n \div g, d \div g>>

RECURSIVE Sum(_)
Sum(s) == IF s = <<>> THEN 0 ELSE Head(s) + Sum(Tail(s))

RECURSIVE SumSq(_)
SumSq(s) == IF s = <<>> THEN 0 ELSE Head(s) * Head(s) + SumSq(Tail(s))

RECURSIVE InsertInt(_, _)
InsertInt(sorted, x) ==
    IF sorted = <<>> THEN <<x>>
    ELSE IF Head(sorted) <= x THEN <<Head(sorted)>> \o InsertInt(Tail(sorted), x)
    ELSE <<x>> \o sorted

RECURSIVE SortedInts(_)
SortedInts(s) ==
    IF s = <<>> THEN <<>> ELSE InsertInt(SortedInts(SubSeq(s, 1, Len(s) - 1)), s[Len(s)])

\* statistics.mean
Mean(values) == Frac(Sum(values), Len(values))

\* statistics.stdev: the square root of the sample (n-1) variance
Stdev(values) ==
    LET n == Len(values)
    IN [sqrt_of |-> Frac(n * SumSq(values) - Sum(values) * Sum(values), n * (n - 1))]

\* statistics.median: the middle element, or the mean of the two middle ones
Median(values) ==
    LET s == SortedInts(values)
        n == Len(s)
    IN IF n % 2 = 1 THEN Frac(s[(n + 1) \div 2], 1)
       ELSE Frac(s[n \div 2] + s[n \div 2 + 1], 2)

ZeroFloat == <<0, 1>>
ZeroStd == [sqrt_of |-> <<0, 1>>]

calc_stats(values) ==
    IF values = <<>> THEN <<ZeroFloat, ZeroStd, ZeroFloat>>
    ELSE <<Mean(values),
           IF Len(values) > 1 THEN Stdev(values) ELSE ZeroStd,
           Median(values)>>

\* ------------------------------------------------------- extract_features
\* a variant of the early return that leaves flight_median out
ZeroFeaturesShort ==
    [dwell_mean |-> ZeroFloat, dwell_std |-> ZeroStd, dwell_median |-> ZeroFloat,
     flight_mean |-> ZeroFloat, flight_std |-> ZeroStd]

\* the dict returned when not events or len(events) < 2
ZeroFeatures ==
    [dwell_mean |-> ZeroFloat, dwell_std |-> ZeroStd, dwell_median |-> ZeroFloat,
     flight_mean |-> ZeroFloat, flight_std |-> ZeroStd, flight_median |-> ZeroFloat]

\* list.sort(key=lambda x: x[0]): stable, by timestamp only
RECURSIVE InsertByT(_, _)
InsertByT(sorted, e) ==
    IF sorted = <<>> THEN <<e>>
    ELSE IF Head(sorted).t <= e.t THEN <<Head(sorted)>> \o InsertByT(Tail(sorted), e)
    ELSE <<e>> \o sorted

RECURSIVE SortByT(_)
SortByT(s) ==
    IF s = <<>> THEN <<>> ELSE InsertByT(SortByT(SubSeq(s, 1, Len(s) - 1)), s[Len(s)])

NoPending == [k \in Keys |-> <<>>]

\* a variant pairing with the newest pending keydown, pop()
PopLast(q) == [taken |-> q[Len(q)], rest |-> SubSeq(q, 1, Len(q) - 1)]

\* pending_downs[key].pop(0)
PopOldest(q) == [taken |-> Head(q), rest |-> Tail(q)]

\* One iteration of the pairing loop over all_events.
DwellStep(st, e) ==
    IF e.type = "down"
    THEN [st EXCEPT !.pending[e.key] = Append(@, e.t)]
    ELSE IF e.type = "up" /\ st.pending[e.key] # <<>>
    THEN LET p == PopOldest(st.pending[e.key])
             dwell_time == e.t - p.taken
         IN [pending |-> [st.pending EXCEPT ![e.key] = p.rest],
             dwell |-> IF dwell_time > 0 THEN Append(st.dwell, dwell_time) ELSE st.dwell]
    ELSE st

RECURSIVE DwellLoop(_, _)
DwellLoop(st, evs) ==
    IF evs = <<>> THEN st ELSE DwellLoop(DwellStep(st, Head(evs)), Tail(evs))

DwellTimes(evs) == DwellLoop([pending |-> NoPending, dwell |-> <<>>], SortByT(evs)).dwell

\* keydowns: the keys in order of their first 'down', each with its 'down'
\* timestamps in input order
RECURSIVE KeydownKeys(_, _)
KeydownKeys(evs, seen) ==
    IF evs = <<>> THEN seen
    ELSE LET e == Head(evs)
         IN KeydownKeys(Tail(evs),
                        IF e.type = "down" /\ \A i \in 1..Len(seen) : seen[i] # e.key
                        THEN Append(seen, e.key) ELSE seen)

DownsOfKey(evs, k) == SelectSeq(evs, LAMBDA e : e.type = "down" /\ e.key = k)

RECURSIVE ConcatDowns(_, _)
ConcatDowns(evs, ks) ==
    IF ks = <<>> THEN <<>> ELSE DownsOfKey(evs, Head(ks)) \o ConcatDowns(evs, Tail(ks))

\* all_downs after its sort
AllDowns(evs) == SortByT(ConcatDowns(evs, KeydownKeys(evs, <<>>)))

\* a variant keeping zero differences too
KeepDiffNonNegative(d) == d >= 0

\* if flight_time > 0
KeepDiff(d) == d > 0

RECURSIVE FlightLoop(_)
FlightLoop(downs) ==
    IF Len(downs) < 2 THEN <<>>
    ELSE LET flight_time == downs[2].t - downs[1].t
         IN (IF KeepDiff(flight_time) THEN <<flight_time>> ELSE <<>>) \o FlightLoop(Tail(downs))

FlightTimes(evs) == FlightLoop(AllDowns(evs))

FeatureDict(dwell, flight) ==
    LET d == calc_stats(dwell)
        f == calc_stats(flight)
    IN [dwell_mean |-> d[1], dwell_std |-> d[2], dwell_median |-> d[3],
        flight_mean |-> f[1], flight_std |-> f[2], flight_median |-> f[3]]

extract_features(evs) ==
    IF Len(evs) < 2 THEN ZeroFeatures
    ELSE FeatureDict(DwellTimes(evs), FlightTimes(evs))

\* ------------------------------------------------------ validate_typed_text
\* A string is a sequence of one-character strings.
UpperLetters ==
    <<
    "A", "B", "C", "D", "E", "F", "G", "H", "I", "J", "K",
    "L", "M", "N", "O", "P", "Q", "R", "S", "T", "U", "V",
    "W", "X", "Y", "Z" >>
LowerLetters ==
    <<
    "a", "b", "c", "d", "e", "f", "g", "h", "i", "j", "k",
    "l", "m", "n", "o", "p", "q", "r", "s", "t", "u", "v",
    "w", "x", "y", "z" >>

\* str.lower, per character
LowerChar(c) ==
    IF \E i \in 1..Len(UpperLetters) : UpperLetters[i] = c
    THEN LowerLetters[CHOOSE i \in 1..Len(UpperLetters) : UpperLetters[i] = c]
    ELSE c

Lower(s) == [i \in 1..Len(s) |-> LowerChar(s[i])]

Whitespace == {" ", "\t", "\n"}

\* str.strip: drop the leading and the trailing whitespace
RECURSIVE LStrip(_)
LStrip(s) == IF s # <<>> /\ Head(s) \in Whitespace THEN LStrip(Tail(s)) ELSE s

RECURSIVE RStrip(_)
RStrip(s) ==
    IF s # <<>> /\ s[Len(s)] \in Whitespace THEN RStrip(SubSeq(s, 1, Len(s) - 1)) ELSE s

Strip(s) == RStrip(LStrip(s))

\* min_similarity = 0.8, as the fraction 4/5
MinSimilarityNum == 4
MinSimilarityDen == 5

\* a variant with a strict comparison
SimilarEnoughStrict(matches, n) == matches * MinSimilarityDen > MinSimilarityNum * n

\* similarity >= min_similarity, with similarity = matches / len(prompt_clean).
\* The float quotient compares with the float 0.8 as the exact fractions do:
\* (5*matches - 4*n) / (5*n) is 0 or at least 1/(5*n) away from it.
SimilarEnough(matches, n) == matches * MinSimilarityDen >= MinSimilarityNum * n

\* the scan "for char in typed_clean": returns matches
RECURSIVE ScanMatches(_, _, _, _)
ScanMatches(typed_clean, prompt_clean, matches, prompt_idx) ==
    IF typed_clean = <<>> THEN matches
    ELSE IF prompt_idx < Len(prompt_clean) /\ Head(typed_clean) = prompt_clean[prompt_idx + 1]
    THEN ScanMatches(Tail(typed_clean), prompt_clean, matches + 1, prompt_idx + 1)
    ELSE ScanMatches(Tail(typed_clean), prompt_clean, matches, prompt_idx)

validate_typed_text(typed, prompt_arg) ==
    LET typed_clean == Lower(Strip(typed))
        prompt_clean == Lower(Strip(prompt_arg))
    IN IF typed_clean = prompt_clean THEN TRUE
       ELSE IF Len(prompt_clean) = 0 THEN FALSE
       ELSE SimilarEnough(ScanMatches(typed_clean, prompt_clean, 0, 0), Len(prompt_clean))

PROMPT_TEXT ==
    <<
    "t", "h", "e", " ", "q", "u", "i", "c", "k", " ", "b",
    "r", "o", "w", "n", " ", "f", "o", "x", " ", "j", "u",
    "m", "p", "s", " ", "o", "v", "e", "r", " ", "t", "h",
    "e", " ", "l", "a", "z", "y", " ", "d", "o", "g" >>

TheQuickBrownFoxUpper == <<"T", "h", "e", " ", "Q", "u", "i", "c", "k", " ", "B", "r", "o", "w", "n", " ", "F", "o", "x">>
TheQuickBrownFoxLower == <<"t", "h", "e", " ", "q", "u", "i", "c", "k", " ", "b", "r", "o", "w", "n", " ", "f", "o", "x">>
Xyz == <<"x", "y", "z">>
PromptUpperCase ==
    <<
    "T", "H", "E", " ", "Q", "U", "I", "C", "K", " ", "B",
    "R", "O", "W", "N", " ", "F", "O", "X", " ", "J", "U",
    "M", "P", "S", " ", "O", "V", "E", "R", " ", "T", "H",
    "E", " ", "L", "A", "Z", "Y", " ", "D", "O", "G" >>

MaxTypedLen == 3
MaxPromptLen == 2
Alphabet == {"a", "b", "A", " "}
Strings(n) == UNION {[1..m -> Alphabet] : m \in 0..n}

\* Inputs beside the small strings: the documented examples, and transcripts
\* at the 0.8 boundary (4 of 5, 35 and 34 of 43 characters).
ExamplePairs ==
    { <<TheQuickBrownFoxUpper, TheQuickBrownFoxLower>>,
      <<Xyz, PROMPT_TEXT>>,
      <<PromptUpperCase, PROMPT_TEXT>>,
      <<SubSeq(PROMPT_TEXT, 1, 35), PROMPT_TEXT>>,
      <<SubSeq(PROMPT_TEXT, 1, 34), PROMPT_TEXT>>,
      <<Xyz \o SubSeq(PROMPT_TEXT, 1, 35) \o Xyz, PROMPT_TEXT>>,
      <<<<"a", "b", "a", "b">>, <<"a", "b", "a", "b", "a">>>>,
      <<<<"a", "x", "b", "a", "b">>, <<"a", "b", "a", "b", "a">>>>,
      <<<<"a", "b", "a">>, <<"a", "b", "a", "b", "a">>>> }

\* ------------------------------------------------ the file store (train.py)
Users == {"A", "B", "C"}
Dirs == {"script_dir", "elsewhere"}
ScriptDir == "script_dir"

DefaultModelPath == "artifacts/model.joblib"
OtherModelPath == "out/model.joblib"
ModelPaths == {DefaultModelPath, OtherModelPath}

\* os.path.dirname
Dirname(path) == IF path = DefaultModelPath THEN "artifacts" ELSE "out"

\* the directory of the hard-coded 'artifacts/feature_order.joblib'
FeatureOrderDir == "artifacts"

NoFile == [exists |-> FALSE]

\* A directory the program runs in, before the program has written anything.
FreshDir ==
    [sessions |-> <<>>,
     subdirs |-> {},
     model |-> [p \in ModelPaths |-> NoFile],
     feature_order |-> NoFile]

DefaultMinPerUser == 10
SplitThreshold == 10

\* test_size = 0.2 as the fraction 1/5: train_test_split keeps ceil(n/5) for the test
TestSizeDen == 5

FEATURE_ORDER ==
    <<"dwell_mean", "dwell_std", "dwell_median", "flight_mean", "flight_std", "flight_median">>

\* the list the trainer builds from the dict
TrainFeatureVector(f) ==
    <<f.dwell_mean, f.dwell_std, f.dwell_median, f.flight_mean, f.flight_std, f.flight_median>>

\* the list the predictor builds from the dict
PredictFeatureVector(f) ==
    <<f.dwell_mean, f.dwell_std, f.dwell_median, f.flight_mean, f.flight_std, f.flight_median>>

\* [] when the file does not exist, else its content
load_sessions(d) == d.sessions

LabelsOf(sessions) == {sessions[i].user : i \in 1..Len(sessions)}

CountOf(sessions, u) == Cardinality({i \in 1..Len(sessions) : sessions[i].user = u})

\* a variant asking for one well-represented user only
CheckSomeUserEnough(sessions, min_per_user) ==
    LET user_counts == [u \in LabelsOf(sessions) |-> CountOf(sessions, u)]
    IN [has_enough |-> \E u \in DOMAIN user_counts : user_counts[u] >= min_per_user,
        user_counts |-> user_counts]

\* all(count >= min_per_user for count in user_counts.values() if count > 0);
\* every counted label has a count of at least 1
check_minimum_samples(sessions, min_per_user) ==
    LET user_counts == [u \in LabelsOf(sessions) |-> CountOf(sessions, u)]
    IN [has_enough |-> \A u \in DOMAIN user_counts : user_counts[u] >= min_per_user,
        user_counts |-> user_counts]

prepare_features(sessions) ==
    [X |-> [i \in 1..Len(sessions) |-> TrainFeatureVector(extract_features(sessions[i].events))],
     y |-> [i \in 1..Len(sessions) |-> sessions[i].user]]

\* a variant without the class-count check
EnoughClassesNever(y) == TRUE

\* not (len(set(y)) < 2)
EnoughClasses(y) == Cardinality({y[i] : i \in 1..Len(y)}) >= 2

Failure(err) == [raised |-> FALSE, success |-> FALSE, error |-> err]

\* The two dumps at the end of a run (lines 125-134): the model goes to
\* model_path, whose directory is created; the feature order goes to the
\* hard-coded artifacts/feature_order.joblib, whose directory is not created
\* here, so the second dump raises FileNotFoundError when it does not exist.
SaveArtifacts(d, model_path, fitted, run) ==
    LET d1 == [d EXCEPT !.subdirs = @ \cup {Dirname(model_path)},
                        !.model[model_path] = fitted]
    IN IF FeatureOrderDir \in d1.subdirs
       THEN [dir |-> [d1 EXCEPT !.feature_order =
                          [exists |-> TRUE, run |-> run, order |-> FEATURE_ORDER]],
             raised |-> FALSE]
       ELSE [dir |-> d1, raised |-> TRUE]

\* train_model in the directory d (data_path at its default); run numbers the
\* call.  Returns the directory afterwards and the returned dict; a raised
\* exception is the result [raised |-> TRUE, ...].  The classifier is opaque:
\* the fitted model is known by the labels it was fitted on.
train_model(d, model_path, min_per_user, run) ==
    LET sessions == load_sessions(d)
        chk == check_minimum_samples(sessions, min_per_user)
        data == prepare_features(sessions)
        n == Len(sessions)
        n_test == IF n >= SplitThreshold THEN (n + TestSizeDen - 1) \div TestSizeDen ELSE n
        n_train == IF n >= SplitThreshold THEN n - n_test ELSE n
        fitted == [exists |-> TRUE, run |-> run,
                   classes |-> {data.y[i] : i \in 1..n}]
        saved == SaveArtifacts(d, model_path, fitted, run)
    IN IF n = 0 THEN [dir |-> d, result |-> Failure("NoData")]
       ELSE IF ~chk.has_enough
       THEN [dir |-> d,
             result |-> [raised |-> FALSE, success |-> FALSE, error |-> "InsufficientSamples",
                         user_counts |-> chk.user_counts]]
       ELSE IF ~EnoughClasses(data.y)
       THEN [dir |-> d, result |-> Failure("InsufficientClasses")]
       ELSE IF saved.raised
       THEN [dir |-> saved.dir,
             result |-> [raised |-> TRUE, success |-> FALSE, error |-> "FileNotFoundError"]]
       ELSE [dir |-> saved.dir,
             result |-> [raised |-> FALSE, success |-> TRUE, user_counts |-> chk.user_counts,
                         total_sessions |-> n, train_size |-> n_train, test_size |-> n_test]]

\* predict_user in the directory d; label is the class the opaque classifier
\* answers with, one of model.classes_.
predict_user(d, evs, model_path, label) ==
    IF ~d.model[model_path].exists
    THEN Failure("ModelNotFound")
    ELSE [raised |-> FALSE, success |-> TRUE,
          predicted_user |-> label,
          feature_vector |-> PredictFeatureVector(extract_features(evs)),
          classes |-> d.model[model_path].classes]

PredictLabels(d, model_path) ==
    IF d.model[model_path].exists THEN d.model[model_path].classes ELSE {"none"}

\* A stored session (app.py, new_session); the creation time is the token "now".
NewSession(user, evs, text) ==
    [user |-> user, events |-> evs, typed_text |-> text, created_at |-> "now"]

\* a variant that writes the new session without the loaded collection
WriteSessionOnly(d, session) == [d EXCEPT !.sessions = <<session>>]

\* Load the whole collection, append, write the whole collection back.
WriteSession(d, session) == [d EXCEPT !.sessions = Append(@, session)]

MaxStored == 3
MaxRuns == 2
MinPerUserArgs == {1, 2, DefaultMinPerUser}

SampleEvents ==
    <<Ev("a", "down", 0), Ev("b", "down", 50), Ev("a", "up", 80), Ev("b", "up", 120)>>


\* ------------------------------------------------------ the Tk application
MinEvents == 4
MaxSaved == 2
MaxCaptured == 4

\* The key the user types with; event.char if event.char else event.keysym.
AppKey == "a"

\* What a text box can hold: nothing, a wrong transcript, the prompt.
TextSamples == {<<>>, Xyz, PROMPT_TEXT}

\* Text.get('1.0', tk.END): the content and the newline Tk ends it with
TextGet(content) == content \o <<"\n">>

\* current_time - start_time.  The clock of the model: the first recorded event
\* of a capture falls on its start, each later one 1 ms after the one before.
RelativeTime(evs) == IF evs = <<>> THEN 0 ELSE evs[Len(evs)].t + 1

\* typed_text of a text box holding txt, and validate_typed_text of it against
\* PROMPT_TEXT, evaluated once per sample
TypedOf == [txt \in TextSamples |-> Strip(TextGet(txt))]
ValidOf == [txt \in {TypedOf[x] : x \in TextSamples} |-> validate_typed_text(txt, PROMPT_TEXT)]

\* a variant of the checks accepting three events
SaveGateThree(typed, evs) ==
    IF typed = <<>> THEN "warn_empty"
    ELSE IF ~ValidOf[typed] THEN "warn_mismatch"
    ELSE IF Len(evs) < MinEvents - 1 THEN "warn_few_events"
    ELSE "ok"

\* the three checks at the head of save_session
SaveGate(typed, evs) ==
    IF typed = <<>> THEN "warn_empty"
    ELSE IF ~ValidOf[typed] THEN "warn_mismatch"
    ELSE IF Len(evs) < MinEvents THEN "warn_few_events"
    ELSE "ok"

\* the three checks at the head of predict_action
PredictGate(typed, evs) ==
    IF typed = <<>> THEN "warn_empty"
    ELSE IF ~ValidOf[typed] THEN "warn_mismatch"
    ELSE IF Len(evs) < MinEvents THEN "warn_few_events"
    ELSE "ok"

Input == [op |-> "input"]

NotCollect == <<featVars, valVars, fsVars, predict_text_input, predict_events, predict_start_time>>
NotPredict == <<featVars, valVars, fsVars, text_input, current_events, session_start_time, user_var>>
StoreUnchanged == <<cwd, fs, runs, trained_ok, last_ok>>

\* ---- idle values of the parts a specification does not exercise
IdleStore ==
    /\ cwd = ScriptDir
    /\ fs = [d \in Dirs |-> FreshDir]
    /\ runs = 0
    /\ trained_ok = FALSE
    /\ last_ok = [p \in ModelPaths |-> 0]
    /\ outcome = [op |-> "none"]

IdleGui ==
    /\ text_input = <<>>
    /\ dropped = FALSE
    /\ predict_dropped = FALSE
    /\ current_events = <<>>
    /\ session_start_time = "None"
    /\ user_var = "A"
    /\ predict_text_input = <<>>
    /\ predict_events = <<>>
    /\ predict_start_time = "None"
    /\ focus = "none"
    /\ held = FALSE

\* ---- extract_features, run step by step on one argument
IdleFeatures ==
    /\ events = <<>>
    /\ pc = "idle"
    /\ all_events = <<>>
    /\ idx = 0
    /\ pending_downs = NoPending
    /\ dwell_times = <<>>
    /\ flight_times = <<>>
    /\ features = "none"

IdleValidate ==
    /\ typed_text = <<>>
    /\ prompt = <<>>
    /\ valid = FALSE
    /\ vpc = "idle"

InitFeatures ==
    /\ IdleGui
    /\ IdleValidate
    /\ IdleStore
    /\ events \in EventSeqs \cup ExampleEvents
    /\ pc = "start"
    /\ all_events = <<>>
    /\ idx = 0
    /\ pending_downs = NoPending
    /\ dwell_times = <<>>
    /\ flight_times = <<>>
    /\ features = "none"

\* lines 22-31: the early return
ef_too_few ==
    /\ pc = "start"
    /\ Len(events) < 2
    /\ features' = ZeroFeatures
    /\ pc' = "done"
    /\ UNCHANGED <<events, all_events, idx, pending_downs, dwell_times, flight_times>>
    /\ UNCHANGED <<valVars, fsVars, guiVars>>

\* lines 55-63: build and sort all_events
ef_sort ==
    /\ pc = "start"
    /\ Len(events) >= 2
    /\ all_events' = SortByT(events)
    /\ idx' = 1
    /\ pc' = "dwell"
    /\ UNCHANGED <<events, pending_downs, dwell_times, flight_times, features>>
    /\ UNCHANGED <<valVars, fsVars, guiVars>>

\* lines 64-74: one iteration of the pairing loop
ef_dwell_step ==
    /\ pc = "dwell"
    /\ idx <= Len(all_events)
    /\ LET st == DwellStep([pending |-> pending_downs, dwell |-> dwell_times], all_events[idx])
       IN /\ pending_downs' = st.pending
          /\ dwell_times' = st.dwell
    /\ idx' = idx + 1
    /\ UNCHANGED <<events, pc, all_events, flight_times, features>>
    /\ UNCHANGED <<valVars, fsVars, guiVars>>

\* lines 76-89: the flight samples
ef_flight ==
    /\ pc = "dwell"
    /\ idx > Len(all_events)
    /\ flight_times' = FlightTimes(events)
    /\ pc' = "stats"
    /\ UNCHANGED <<events, all_events, idx, pending_downs, dwell_times, features>>
    /\ UNCHANGED <<valVars, fsVars, guiVars>>

\* lines 91-111: the statistics and the returned dict
ef_return ==
    /\ pc = "stats"
    /\ features' = FeatureDict(dwell_times, flight_times)
    /\ pc' = "done"
    /\ UNCHANGED <<events, all_events, idx, pending_downs, dwell_times, flight_times>>
    /\ UNCHANGED <<valVars, fsVars, guiVars>>

NextFeatures == ef_too_few \/ ef_sort \/ ef_dwell_step \/ ef_flight \/ ef_return

SpecFeatures == InitFeatures /\ [][NextFeatures]_vars

\* ---- validate_typed_text, called on one pair of arguments
InitValidate ==
    /\ IdleGui
    /\ IdleFeatures
    /\ IdleStore
    /\ \E pair \in (Strings(MaxTypedLen) \X Strings(MaxPromptLen)) \cup ExamplePairs :
          /\ typed_text = pair[1]
          /\ prompt = pair[2]
    /\ valid = FALSE
    /\ vpc = "call"

vt_call ==
    /\ vpc = "call"
    /\ valid' = validate_typed_text(typed_text, prompt)
    /\ vpc' = "done"
    /\ UNCHANGED <<typed_text, prompt>>
    /\ UNCHANGED <<featVars, fsVars, guiVars>>

NextValidate == vt_call

SpecValidate == InitValidate /\ [][NextValidate]_vars

\* ---- train_model and predict_user called on the store of the working directory
InitTrain ==
    /\ IdleGui
    /\ IdleFeatures
    /\ IdleValidate
    /\ cwd \in Dirs
    /\ fs = [d \in Dirs |-> FreshDir]
    /\ runs = 0
    /\ trained_ok = FALSE
    /\ last_ok = [p \in ModelPaths |-> 0]
    /\ outcome = [op |-> "none"]

\* a session is saved to data/sessions.json of the working directory
store_session ==
    /\ Len(fs[cwd].sessions) < MaxStored
    /\ \E u \in Users :
          /\ fs' = [fs EXCEPT ![cwd] = WriteSession(@, NewSession(u, SampleEvents, PROMPT_TEXT))]
          /\ outcome' = [op |-> "store_session"]
    /\ UNCHANGED <<cwd, runs, trained_ok, last_ok>>
    /\ UNCHANGED <<featVars, valVars, guiVars>>

call_train_model ==
    /\ runs < MaxRuns
    /\ \E model_path \in ModelPaths, min_per_user \in MinPerUserArgs :
          LET r == train_model(fs[cwd], model_path, min_per_user, runs + 1)
          IN /\ fs' = [fs EXCEPT ![cwd] = r.dir]
             /\ runs' = IF r.dir # fs[cwd] THEN runs + 1 ELSE runs
             /\ trained_ok' = (trained_ok \/ r.result.success)
             /\ last_ok' = IF r.result.success
                           THEN [last_ok EXCEPT ![model_path] = runs + 1] ELSE last_ok
             /\ outcome' = [op |-> "train_model", model_path |-> model_path,
                            min_per_user |-> min_per_user, result |-> r.result]
    /\ UNCHANGED cwd
    /\ UNCHANGED <<featVars, valVars, guiVars>>

call_predict_user ==
    /\ \E model_path \in ModelPaths :
       \E label \in PredictLabels(fs[cwd], model_path) :
          outcome' = [op |-> "predict_user", model_path |-> model_path,
                      result |-> predict_user(fs[cwd], SampleEvents, model_path, label)]
    /\ UNCHANGED <<cwd, fs, runs, trained_ok, last_ok>>
    /\ UNCHANGED <<featVars, valVars, guiVars>>

NextTrain == store_session \/ call_train_model \/ call_predict_user

SpecTrain == InitTrain /\ [][NextTrain]_vars

\* ---- the application: the handlers of the Collect, Train and Predict tabs
Init ==
    /\ IdleFeatures
    /\ IdleValidate
    /\ IdleGui
    /\ cwd \in Dirs
    /\ fs = [d \in Dirs |-> FreshDir]
    /\ runs = 0
    /\ trained_ok = FALSE
    /\ last_ok = [p \in ModelPaths |-> 0]
    /\ outcome = [op |-> "none"]

\* the user picks a label with the radio buttons
select_user ==
    /\ \E u \in Users \ {user_var} : user_var' = u
    /\ outcome' = Input
    /\ UNCHANGED <<text_input, dropped, current_events, session_start_time, focus, held>>
    /\ UNCHANGED StoreUnchanged
    /\ UNCHANGED <<featVars, valVars, predict_text_input, predict_dropped, predict_events, predict_start_time>>

\* the Tk Text widget changes its content (typing, pasting, deleting)
edit_text ==
    /\ \E txt \in TextSamples \ {text_input} :
          /\ text_input' = txt
          /\ dropped' = IF txt = <<>> THEN FALSE ELSE dropped
    /\ outcome' = Input
    /\ UNCHANGED <<current_events, session_start_time, user_var, focus, held>>
    /\ UNCHANGED StoreUnchanged
    /\ UNCHANGED <<featVars, valVars, predict_text_input, predict_dropped, predict_events, predict_start_time>>

edit_predict_text ==
    /\ \E txt \in TextSamples \ {predict_text_input} :
          /\ predict_text_input' = txt
          /\ predict_dropped' = IF txt = <<>> THEN FALSE ELSE predict_dropped
    /\ outcome' = Input
    /\ UNCHANGED <<predict_events, predict_start_time, focus, held>>
    /\ UNCHANGED StoreUnchanged
    /\ UNCHANGED <<featVars, valVars, text_input, dropped, current_events, session_start_time, user_var>>

\* The text box gets the keyboard focus (between keystrokes, in this model).
on_focus_in ==
    /\ ~held
    /\ focus # "collect"
    /\ focus' = "collect"
    /\ current_events' = <<>>
    /\ dropped' = (dropped \/ (current_events # <<>> /\ text_input # <<>>))
    /\ session_start_time' = "started"
    /\ outcome' = Input
    /\ UNCHANGED <<text_input, user_var, held>>
    /\ UNCHANGED StoreUnchanged
    /\ UNCHANGED <<featVars, valVars, predict_text_input, predict_dropped, predict_events, predict_start_time>>

on_key_down ==
    /\ focus = "collect"
    /\ ~held
    /\ Len(current_events) < MaxCaptured
    /\ held' = TRUE
    /\ session_start_time' = "started"
    /\ current_events' = Append(current_events, Ev(AppKey, "down", RelativeTime(current_events)))
    /\ outcome' = Input
    /\ UNCHANGED <<text_input, dropped, user_var, focus>>
    /\ UNCHANGED StoreUnchanged
    /\ UNCHANGED <<featVars, valVars, predict_text_input, predict_dropped, predict_events, predict_start_time>>

on_key_up ==
    /\ focus = "collect"
    /\ held
    /\ session_start_time = "None" \/ Len(current_events) < MaxCaptured
    /\ held' = FALSE
    /\ IF session_start_time = "None"
       THEN UNCHANGED current_events
       ELSE current_events' = Append(current_events, Ev(AppKey, "up", RelativeTime(current_events)))
    /\ outcome' = Input
    /\ UNCHANGED <<text_input, dropped, session_start_time, user_var, focus>>
    /\ UNCHANGED StoreUnchanged
    /\ UNCHANGED <<featVars, valVars, predict_text_input, predict_dropped, predict_events, predict_start_time>>

on_predict_focus_in ==
    /\ ~held
    /\ focus # "predict"
    /\ focus' = "predict"
    /\ predict_events' = <<>>
    /\ predict_dropped' = (predict_dropped \/ (predict_events # <<>> /\ predict_text_input # <<>>))
    /\ predict_start_time' = "started"
    /\ outcome' = Input
    /\ UNCHANGED <<predict_text_input, held>>
    /\ UNCHANGED StoreUnchanged
    /\ UNCHANGED <<featVars, valVars, text_input, dropped, current_events, session_start_time, user_var>>

on_predict_key_down ==
    /\ focus = "predict"
    /\ ~held
    /\ Len(predict_events) < MaxCaptured
    /\ held' = TRUE
    /\ predict_start_time' = "started"
    /\ predict_events' = Append(predict_events, Ev(AppKey, "down", RelativeTime(predict_events)))
    /\ outcome' = Input
    /\ UNCHANGED <<predict_text_input, predict_dropped, focus>>
    /\ UNCHANGED StoreUnchanged
    /\ UNCHANGED <<featVars, valVars, text_input, dropped, current_events, session_start_time, user_var>>

on_predict_key_up ==
    /\ focus = "predict"
    /\ held
    /\ predict_start_time = "None" \/ Len(predict_events) < MaxCaptured
    /\ held' = FALSE
    /\ IF predict_start_time = "None"
       THEN UNCHANGED predict_events
       ELSE predict_events' = Append(predict_events, Ev(AppKey, "up", RelativeTime(predict_events)))
    /\ outcome' = Input
    /\ UNCHANGED <<predict_text_input, predict_dropped, predict_start_time, focus>>
    /\ UNCHANGED StoreUnchanged
    /\ UNCHANGED <<featVars, valVars, text_input, dropped, current_events, session_start_time, user_var>>

clear_input ==
    /\ text_input' = <<>>
    /\ dropped' = FALSE
    /\ current_events' = <<>>
    /\ session_start_time' = "None"
    /\ outcome' = Input
    /\ UNCHANGED <<user_var, focus, held>>
    /\ UNCHANGED StoreUnchanged
    /\ UNCHANGED <<featVars, valVars, predict_text_input, predict_dropped, predict_events, predict_start_time>>

clear_predict_input ==
    /\ predict_text_input' = <<>>
    /\ predict_dropped' = FALSE
    /\ predict_events' = <<>>
    /\ predict_start_time' = "None"
    /\ outcome' = Input
    /\ UNCHANGED <<focus, held>>
    /\ UNCHANGED StoreUnchanged
    /\ UNCHANGED <<featVars, valVars, text_input, dropped, current_events, session_start_time, user_var>>

save_session ==
    LET typed == TypedOf[text_input]
        user == user_var
        gate == SaveGate(typed, current_events)
    IN /\ IF gate # "ok"
          THEN /\ outcome' = [op |-> "save_session", message |-> gate]
               /\ UNCHANGED <<fs, text_input, dropped, current_events, session_start_time>>
          ELSE /\ Len(fs[cwd].sessions) < MaxSaved
               /\ fs' = [fs EXCEPT ![cwd] = WriteSession(@, NewSession(user, current_events, typed))]
               /\ text_input' = <<>>
               /\ dropped' = FALSE
               /\ current_events' = <<>>
               /\ session_start_time' = "None"
               /\ outcome' = [op |-> "save_session", message |-> "saved"]
       /\ UNCHANGED <<cwd, runs, trained_ok, last_ok, user_var, focus, held>>
       /\ UNCHANGED <<featVars, valVars, predict_text_input, predict_dropped, predict_events, predict_start_time>>

\* chdir to the script directory, train_model() with its defaults, chdir back
train_model_action ==
    LET original_dir == cwd
        r == train_model(fs[ScriptDir], DefaultModelPath, DefaultMinPerUser, runs + 1)
    IN /\ fs' = [fs EXCEPT ![ScriptDir] = r.dir]
       /\ runs' = IF r.dir # fs[ScriptDir] THEN runs + 1 ELSE runs
       /\ trained_ok' = (trained_ok \/ r.result.success)
       /\ last_ok' = IF r.result.success
                     THEN [last_ok EXCEPT ![DefaultModelPath] = runs + 1] ELSE last_ok
       /\ outcome' = [op |-> "train_model_action", result |-> r.result]
       /\ cwd' = original_dir
       /\ UNCHANGED <<featVars, valVars, guiVars>>

\* the gate, then chdir to the script directory, predict_user(self.predict_events)
\* with the default model path, chdir back
predict_action ==
    LET typed == TypedOf[predict_text_input]
        original_dir == cwd
        gate == PredictGate(typed, predict_events)
    IN /\ IF gate # "ok"
          THEN outcome' = [op |-> "predict_action", message |-> gate]
          ELSE \E label \in PredictLabels(fs[ScriptDir], DefaultModelPath) :
                  outcome' = [op |-> "predict_action", message |-> "predict_user",
                              events |-> predict_events,
                              result |-> predict_user(fs[ScriptDir], predict_events,
                                                      DefaultModelPath, label)]
       /\ cwd' = original_dir
       /\ UNCHANGED <<fs, runs, trained_ok, last_ok>>
       /\ UNCHANGED <<featVars, valVars, guiVars>>

Next ==
    \/ select_user \/ edit_text \/ edit_predict_text
    \/ on_focus_in \/ on_key_down \/ on_key_up
    \/ on_predict_focus_in \/ on_predict_key_down \/ on_predict_key_up
    \/ clear_input \/ clear_predict_input
    \/ save_session \/ train_model_action \/ predict_action

Spec == Init /\ [][Next]_vars

\* ---- claims about extract_features (checked under SpecFeatures)

SortedByT(s) == \A i \in 1..(Len(s) - 1) : s[i].t <= s[i + 1].t

CountIn(s, x) == Cardinality({i \in 1..Len(s) : s[i] = x})

SameEvents(s1, s2) ==
    /\ Len(s1) = Len(s2)
    /\ \A i \in 1..Len(s1) : CountIn(s1, s1[i]) = CountIn(s2, s1[i])

\* C1: dwell samples come from per-key FIFO pairing over the events sorted by
\* timestamp: the loop runs over a timestamp-sorted rearrangement of the input;
\* a 'down' is appended to its key's queue; an 'up' removes the oldest pending
\* 'down' of its key and records up_t - down_t only if it is > 0; an 'up' whose
\* key has nothing pending changes neither the queues nor the samples.
C1_DwellFifoPairing ==
    /\ [](pc = "dwell" => SortedByT(all_events) /\ SameEvents(all_events, events))
    /\ [][ (pc = "dwell" /\ idx <= Len(all_events) /\ idx' = idx + 1) =>
             LET e == all_events[idx]
                 q == pending_downs[e.key]
             IN /\ \A k \in Keys \ {e.key} : pending_downs'[k] = pending_downs[k]
                /\ e.type = "down" =>
                      /\ pending_downs'[e.key] = q \o <<e.t>>
                      /\ dwell_times' = dwell_times
                /\ (e.type = "up" /\ q # <<>>) =>
                      /\ pending_downs'[e.key] = Tail(q)
                      /\ dwell_times' = IF e.t - q[1] > 0
                                        THEN dwell_times \o <<e.t - q[1]>>
                                        ELSE dwell_times
                /\ (e.type = "up" /\ q = <<>>) =>
                      /\ pending_downs' = pending_downs
                      /\ dwell_times' = dwell_times ]_vars

\* Two presses of one key are pending when its release arrives, and the run
\* also met a release with nothing pending.
C1_Witness ==
    /\ pc = "done"
    /\ \E i, j, l \in 1..Len(all_events) :
          /\ i < j /\ j < l
          /\ all_events[i].type = "down" /\ all_events[j].type = "down"
          /\ all_events[l].type = "up"
          /\ all_events[i].key = all_events[j].key /\ all_events[j].key = all_events[l].key
          /\ all_events[i].t < all_events[j].t
          /\ dwell_times = <<all_events[l].t - all_events[i].t>>

PermuteSeq(s, f) == [i \in 1..Len(s) |-> s[f[i]]]

\* C2: extract_features returns the same six values for every permutation of
\* its input, including permutations of events that share a timestamp.
C2_OrderInvariant ==
    pc = "done" =>
        \A f \in Permutations(1..Len(events)) :
            extract_features(PermuteSeq(events, f)) = features

FeatureNames ==
    {"dwell_mean", "dwell_std", "dwell_median", "flight_mean", "flight_std", "flight_median"}

\* C3: fewer than 2 events: the call returns (it has an enabled step until it
\* is done) and the result is the vector of six zeros.
C3_TooFewIsZero ==
    Len(events) < 2 =>
        /\ pc \in {"start", "done"}
        /\ pc = "start" => ENABLED ef_too_few
        /\ pc = "done" =>
              /\ DOMAIN features = FeatureNames
              /\ features.dwell_mean = <<0, 1>> /\ features.dwell_median = <<0, 1>>
              /\ features.flight_mean = <<0, 1>> /\ features.flight_median = <<0, 1>>
              /\ features.dwell_std = [sqrt_of |-> <<0, 1>>]
              /\ features.flight_std = [sqrt_of |-> <<0, 1>>]

C3_Witness == pc = "done" /\ Len(events) = 1 /\ events[1].type = "up"

DownTimestamps(evs) ==
    LET d == SelectSeq(evs, LAMBDA e : e.type = "down")
    IN [i \in 1..Len(d) |-> d[i].t]

ConsecutiveDiffs(s) == [i \in 1..(IF Len(s) = 0 THEN 0 ELSE Len(s) - 1) |-> s[i + 1] - s[i]]

\* C4: the flight samples are the strictly positive differences of consecutive
\* elements of the ascending list of all 'down' timestamps, whatever the keys;
\* n presses give at most n-1 samples; presses at 0 and 50 on two keys give 50.
C4_FlightSamples ==
    (pc \in {"stats", "done"} /\ Len(events) >= 2) =>
        LET downs == SortedInts(DownTimestamps(events))
        IN /\ flight_times = SelectSeq(ConsecutiveDiffs(downs), LAMBDA d : d > 0)
           /\ Len(downs) > 0 => Len(flight_times) <= Len(downs) - 1
           /\ (/\ Len(downs) = 2 /\ downs = <<0, 50>>
               /\ \E i, j \in 1..Len(events) :
                     /\ events[i].type = "down" /\ events[j].type = "down"
                     /\ events[i].key # events[j].key)
              => flight_times = <<50>>

C4_Witness ==
    /\ pc = "done"
    /\ flight_times = <<50>>
    /\ \E i, j \in 1..Len(events) :
          /\ events[i].type = "down" /\ events[j].type = "down"
          /\ events[i].key # events[j].key

\* simultaneous presses: a zero difference, dropped
C4_WitnessTie ==
    /\ pc = "done"
    /\ Len(DownTimestamps(events)) = 3
    /\ Len(flight_times) = 1

\* ---- claims about validate_typed_text (checked under SpecValidate)

RECURSIVE IsSubsequence(_, _)
IsSubsequence(p, t) ==
    IF p = <<>> THEN TRUE
    ELSE IF t = <<>> THEN FALSE
    ELSE IF Head(p) = Head(t) THEN IsSubsequence(Tail(p), Tail(t))
    ELSE IsSubsequence(p, Tail(t))

\* The count the in-order scan arrives at: the length of the longest prefix of
\* the prompt that the typed text contains as a subsequence.
Matched(t, p) ==
    CHOOSE k \in 0..Len(p) :
        /\ IsSubsequence(SubSeq(p, 1, k), t)
        /\ \A j \in (k + 1)..Len(p) : ~IsSubsequence(SubSeq(p, 1, j), t)

\* C5: validate_typed_text is true iff the trimmed lower-cased strings are equal,
\* or the prompt is non-empty and matched / len(prompt) >= 0.8; it accepts a
\* case-only variant of the prompt and rejects "xyz" against the 43-character one.
C5_ValidateIff ==
    vpc = "done" =>
        LET t == Lower(Strip(typed_text))
            p == Lower(Strip(prompt))
        IN /\ valid = (\/ t = p
                       \/ /\ Len(p) > 0
                          /\ 5 * Matched(t, p) >= 4 * Len(p))
           /\ (typed_text = PromptUpperCase /\ prompt = PROMPT_TEXT) => valid = TRUE
           /\ (typed_text = TheQuickBrownFoxUpper /\ prompt = TheQuickBrownFoxLower) => valid = TRUE
           /\ (typed_text = Xyz /\ prompt = PROMPT_TEXT) => valid = FALSE

\* accepted by the ratio alone, exactly at 0.8
C5_Witness ==
    /\ vpc = "done"
    /\ valid = TRUE
    /\ Lower(Strip(typed_text)) # Lower(Strip(prompt))
    /\ 5 * Matched(Lower(Strip(typed_text)), Lower(Strip(prompt))) = 4 * Len(Lower(Strip(prompt)))

C5_WitnessReject == vpc = "done" /\ valid = FALSE /\ typed_text = Xyz /\ Len(prompt) = 43

\* ---- claims about train_model and predict_user (checked under SpecTrain)

\* the store train_model read in the call recorded in outcome
TrainedOn == fs[cwd].sessions

LabelsPresent == {TrainedOn[i].user : i \in 1..Len(TrainedOn)}

StoredWith(u) == Cardinality({i \in 1..Len(TrainedOn) : TrainedOn[i].user = u})

\* C6: on a non-empty store in which some present label has fewer than
\* min_per_user sessions, train_model returns the InsufficientSamples failure and
\* its user_counts maps every present label to the number of its sessions.
C6_InsufficientSamples ==
    (/\ outcome.op = "train_model"
     /\ TrainedOn # <<>>
     /\ \E u \in LabelsPresent : StoredWith(u) < outcome.min_per_user)
    => /\ ~outcome.result.raised
       /\ ~outcome.result.success
       /\ outcome.result.error = "InsufficientSamples"
       /\ DOMAIN outcome.result.user_counts = LabelsPresent
       /\ \A u \in LabelsPresent : outcome.result.user_counts[u] = StoredWith(u)

\* one label has enough sessions, another has not
C6_Witness ==
    /\ outcome.op = "train_model"
    /\ ~outcome.result.success
    /\ outcome.result.error = "InsufficientSamples"
    /\ Cardinality(LabelsPresent) = 2
    /\ \E u \in LabelsPresent : StoredWith(u) >= outcome.min_per_user
    /\ \E u \in LabelsPresent : StoredWith(u) < outcome.min_per_user

\* C7 as stated: training on a store with only one distinct user label fails
\* with InsufficientClasses.
C7_OneLabelInsufficientClasses ==
    (outcome.op = "train_model" /\ Cardinality(LabelsPresent) = 1)
    => /\ ~outcome.result.success
       /\ outcome.result.error = "InsufficientClasses"

\* C7 as amended: with only one distinct label the run fails; with
\* InsufficientClasses when that label has at least min_per_user sessions, and
\* with InsufficientSamples (the earlier check) when it has fewer.
C7_OneLabelFails ==
    (outcome.op = "train_model" /\ Cardinality(LabelsPresent) = 1)
    => /\ ~outcome.result.success
       /\ ~outcome.result.raised
       /\ outcome.result.error =
             IF \A u \in LabelsPresent : StoredWith(u) >= outcome.min_per_user
             THEN "InsufficientClasses" ELSE "InsufficientSamples"
       /\ fs[cwd].model = [p \in ModelPaths |-> NoFile]

C7_Witness ==
    /\ outcome.op = "train_model"
    /\ Cardinality(LabelsPresent) = 1
    /\ Len(TrainedOn) = 2
    /\ outcome.min_per_user = 2
    /\ ~outcome.result.success
    /\ outcome.result.error = "InsufficientClasses"

\* C8: without a successful training run before it, every predict_user call
\* returns the ModelNotFound failure; a prediction succeeds only after one.
C8_PredictNeedsTraining ==
    (outcome.op = "predict_user" /\ ~trained_ok)
    => /\ ~outcome.result.success
       /\ outcome.result.error = "ModelNotFound"

\* C9: in no reachable state is a classifier artifact present while the
\* feature-order artifact is missing or from an older run than the classifier.
C9_ArtifactsTogether ==
    \A d \in Dirs : \A p \in ModelPaths :
        fs[d].model[p].exists =>
            /\ fs[d].feature_order.exists
            /\ fs[d].feature_order.run >= fs[d].model[p].run

CheckFailures == {"NoData", "InsufficientSamples", "InsufficientClasses"}

\* C12: a train_model call that fails one of its checks (NoData,
\* InsufficientSamples, InsufficientClasses) leaves the model and feature-order
\* artifacts exactly as they were, so that a prediction after it, for every
\* model path, uses the model written by the last successful training run, or
\* reports ModelNotFound when no run has succeeded.
C12_FailedRunKeepsModel ==
    [][ (/\ outcome'.op = "train_model"
         /\ ~outcome'.result.success
         /\ ~outcome'.result.raised
         /\ outcome'.result.error \in CheckFailures)
        => /\ fs'[cwd].model = fs[cwd].model
           /\ fs'[cwd].feature_order = fs[cwd].feature_order
           /\ \A p \in ModelPaths : \A label \in PredictLabels(fs'[cwd], p) :
                 LET res == predict_user(fs'[cwd], SampleEvents, p, label)
                 IN IF last_ok'[p] = 0
                    THEN ~res.success /\ res.error = "ModelNotFound"
                    ELSE /\ res.success
                         /\ fs'[cwd].model[p].run = last_ok'[p] ]_vars

\* a feature dict whose values are the feature names, to read off the order in
\* which a vector is assembled from it
NamedFeatures == [n \in FeatureNames |-> n]

\* C13: predict_user checks the recorded feature order: a predict_user call
\* returns success only when the feature-order artifact exists and records the
\* order in which the predictor assembles its vector; and that order is the
\* order in which the trainer assembles its vectors.
C13_FeatureOrderChecked ==
    /\ PredictFeatureVector(NamedFeatures) = TrainFeatureVector(NamedFeatures)
    /\ (outcome.op = "predict_user" /\ outcome.result.success)
          => /\ fs[cwd].feature_order.exists
             /\ fs[cwd].feature_order.order = PredictFeatureVector(NamedFeatures)

\* ---- claims about the application (checked under Spec)

Warnings == {"warn_empty", "warn_mismatch", "warn_few_events"}

\* the samples whose stripped text is non-empty and passes validate_typed_text
AcceptedTexts ==
    {txt \in TextSamples :
        /\ Strip(TextGet(txt)) # <<>>
        /\ validate_typed_text(Strip(TextGet(txt)), PROMPT_TEXT)}

CollectGateHolds == text_input \in AcceptedTexts /\ Len(current_events) >= 4

PredictGateHolds == predict_text_input \in AcceptedTexts /\ Len(predict_events) >= 4

\* C10: save_session appends a session, and predict_action calls predict_user,
\* only when the tab's typed text is non-empty and valid against PROMPT_TEXT and
\* the tab has recorded at least 4 key events; otherwise the operation ends with
\* a warning and changes neither the session store nor the recorded events.
C10_CaptureGate ==
    [][ /\ outcome'.op = "save_session" =>
              IF CollectGateHolds
              THEN /\ outcome'.message = "saved"
                   /\ fs'[cwd].sessions =
                         Append(fs[cwd].sessions,
                                [user |-> user_var, events |-> current_events,
                                 typed_text |-> Strip(TextGet(text_input)),
                                 created_at |-> "now"])
              ELSE /\ outcome'.message \in Warnings
                   /\ fs' = fs
                   /\ current_events' = current_events
        /\ (\E d \in Dirs : fs'[d].sessions # fs[d].sessions) =>
              /\ outcome'.op = "save_session"
              /\ CollectGateHolds
        /\ outcome'.op = "predict_action" =>
              /\ fs' = fs
              /\ predict_events' = predict_events
              /\ IF PredictGateHolds
                 THEN /\ outcome'.message = "predict_user"
                      /\ outcome'.events = predict_events
                 ELSE outcome'.message \in Warnings ]_vars

\* a session was saved and then predict_user was called through its gate
C10_Witness ==
    /\ outcome.op = "predict_action"
    /\ outcome.message = "predict_user"
    /\ Len(fs[cwd].sessions) >= 1

C10_WitnessRefused ==
    /\ outcome.op = "save_session"
    /\ outcome.message = "warn_few_events"
    /\ Len(current_events) = 3

\* ---- claims about the session store (checked under Spec)

IsPrefix(s1, s2) == Len(s1) <= Len(s2) /\ SubSeq(s2, 1, Len(s1)) = s1

\* C11: the session store is append-only.  In every step the stored collection
\* of every directory is a prefix of the collection after the step (so the
\* collection at an earlier point is a prefix of it at any later point); a
\* successful save_session extends the collection of the working directory by
\* exactly one session made of the selected user label, the recorded events,
\* the typed text and a creation time; every other step (clearing, key events,
\* training, prediction, a refused save) leaves every collection as it was.
C11_AppendOnly ==
    [][ /\ \A d \in Dirs : IsPrefix(fs[d].sessions, fs'[d].sessions)
        /\ IF outcome'.op = "save_session" /\ outcome'.message = "saved"
           THEN /\ fs'[cwd].sessions =
                      fs[cwd].sessions \o
                      <<[user |-> user_var, events |-> current_events,
                         typed_text |-> Strip(TextGet(text_input)),
                         created_at |-> "now"]>>
                /\ \A d \in Dirs \ {cwd} : fs'[d].sessions = fs[d].sessions
           ELSE \A d \in Dirs : fs'[d].sessions = fs[d].sessions ]_vars

\* two sessions of different users are stored, and a training run came after
C11_Witness ==
    /\ outcome.op = "train_model_action"
    /\ Len(fs[cwd].sessions) = 2
    /\ fs[cwd].sessions[1].user # fs[cwd].sessions[2].user
    /\ Len(fs[cwd].sessions[1].events) >= MinEvents

\* C14: the store the Collect tab writes is the store the Train tab reads.
\* Whatever directory the application was started from, a train_model_action
\* after sessions were saved loads those sessions: it does not report NoData,
\* the per-user counts it reports are the numbers of sessions saved per user
\* and its total is their number; and train_model_action and predict_action
\* leave the working directory as they found it.
C14_CollectStoreIsTrainStore ==
    [][ /\ outcome'.op \in {"train_model_action", "predict_action"} => cwd' = cwd
        /\ (outcome'.op = "train_model_action" /\ fs[cwd].sessions # <<>>)
             => LET saved == fs[cwd].sessions
                    res == outcome'.result
                IN /\ ~res.raised
                   /\ ~res.success => res.error # "NoData"
                   /\ "user_counts" \in DOMAIN res =>
                         /\ DOMAIN res.user_counts = LabelsOf(saved)
                         /\ \A u \in LabelsOf(saved) :
                               res.user_counts[u] = CountOf(saved, u)
                   /\ res.success => res.total_sessions = Len(saved) ]_vars

\* C15: recorded events and typed text stay in step in both tabs.  A step
\* empties a non-empty event list only when the text box of its tab is empty
\* before the step or after it; hence a session that save_session stores, and
\* the events predict_action passes to predict_user, have lost none of the key
\* events recorded since the text box was last empty.
C15_EventsFollowText ==
    [][ /\ (current_events # <<>> /\ current_events' = <<>>)
             => (text_input = <<>> \/ text_input' = <<>>)
        /\ (predict_events # <<>> /\ predict_events' = <<>>)
             => (predict_text_input = <<>> \/ predict_text_input' = <<>>)
        /\ (outcome'.op = "save_session" /\ outcome'.message = "saved")
             => ~dropped
        /\ (outcome'.op = "predict_action" /\ outcome'.message = "predict_user")
             => ~predict_dropped ]_vars

====
